---------------------------- MODULE Spec2Model ----------------------------
(***************************************************************************)
(* Model of the real-time moderation pipeline:                             *)
(*   services/lightweight-filter/app/main.py   (Filter)                    *)
(*   services/mcp-server/app/main.py           (MCP server, LLM client)    *)
(*   services/chat-simulator/app/main.py       (ingress pipeline)          *)
(*                                                                         *)
(* Conventions.  Confidences are percentages (0.95 is 95).  A message is   *)
(* the sequence of its whitespace-separated tokens; the regular            *)
(* expressions of the source are modelled on tokens by the tables below.   *)
(* processing_time_ms is wall-clock timing and is left out of responses.   *)
(***************************************************************************)
EXTENDS Integers, Sequences, FiniteSets, TLC

(***************************************************************************)
(* Bounds of the model.                                                    *)
(***************************************************************************)
\* The clock of the Filter service runs over 0..MaxTime.
MaxTime == 2
\* Number of /filter calls in one behaviour.
MaxCalls == 3
\* RateLimitFilter.rate_limit_window (60 in the source), scaled to the clock.
rate_limit_window == 2
\* RateLimitFilter.max_messages_per_window (10 in the source), scaled.
max_messages_per_window == 2

\* LLMClient.max_retries (LLM_MAX_RETRIES) ranges over 0..MaxRetries.
MaxRetries == 3

Users == {"u1", "u2"}

(***************************************************************************)
(* Tokens and messages of the Filter.                                      *)
(***************************************************************************)
FilterMessages ==
    { <<"hello", "world">>,
      <<"My", "email", "is", "jane@acme.io">>,
      <<"You", "are", "an", "idiot">>,
      <<"KYS">>,
      <<"click", "here", "bit.ly/x">>,
      <<"damn", "bit.ly/x">>,
      <<"idiot", "555-123-4567">>,
      <<"ssn", "123-45-6789">>,
      <<"1234", "5678", "9012", "3456">>,
      <<"id", "123456789">> }

\* str.lower() on a token.
Lower(tok) ==
    CASE tok = "My" -> "my"
      [] tok = "You" -> "you"
      [] tok = "KYS" -> "kys"
      [] tok = "SYSTEM:" -> "system:"
      [] tok = "Ignore" -> "ignore"
      [] OTHER -> tok

\* re.findall(r'\b\w+\b', token.lower()): the words of one token.
TokenWords(tok) ==
    CASE tok = "jane@acme.io" -> <<"jane", "acme", "io">>
      [] tok = "bit.ly/x" -> <<"bit", "ly", "x">>
      [] tok = "123-45-6789" -> <<"123", "45", "6789">>
      [] tok = "555-123-4567" -> <<"555", "123", "4567">>
      [] OTHER -> <<Lower(tok)>>

RECURSIVE Words(_)
\* re.findall(r'\b\w+\b', message.lower())
Words(message) ==
    IF message = <<>> THEN <<>>
    ELSE TokenWords(Head(message)) \o Words(Tail(message))

\* The shape of a token, as the PII and link regular expressions see it.
TokenShape(tok) ==
    CASE tok = "jane@acme.io" -> "email"
      [] tok = "555-123-4567" -> "phone"
      [] tok = "123-45-6789" -> "ssn"
      [] tok \in {"1234", "5678", "9012", "3456"} -> "d4"
      [] tok = "123456789" -> "d9"
      [] tok = "bit.ly/x" -> "shortlink"
      [] OTHER -> "word"

(***************************************************************************)
(* KeywordFilter: the default configuration and the scans.                 *)
(***************************************************************************)
banned_words ==
    {"spam", "scam", "fake", "bot", "hack", "cheat",
     "idiot", "stupid", "moron", "loser", "noob"}

whitelist_words == {}

\* A compiled pattern is modelled by what it matches on tokens: the phrases
\* (word sequences, case-insensitive) of its alternatives, the shapes of the
\* single tokens it matches, and whether it is the four-groups card pattern.
Pattern(phrases, shapes, card) == [phrases |-> phrases, shapes |-> shapes, card |-> card]

toxic_patterns ==
    << Pattern({<<"kill", "yourself">>, <<"kys">>}, {}, FALSE),
       Pattern({<<"go", "die">>, <<"die", "in", "a", "fire">>}, {}, FALSE),
       Pattern({<<"hate", "you">>, <<"you", "suck">>}, {}, FALSE) >>

\* The third spam pattern (runs of emoji) matches no token of the model.
spam_patterns ==
    << Pattern({}, {"shortlink"}, FALSE),
       Pattern({<<"free", "money">>, <<"click", "here">>, <<"buy", "now">>}, {}, FALSE),
       Pattern({}, {}, FALSE) >>

\* Email, phone number, credit card, SSN.
pii_patterns ==
    << Pattern({}, {"email"}, FALSE),
       Pattern({}, {"phone"}, FALSE),
       Pattern({}, {}, TRUE),
       Pattern({}, {"ssn"}, FALSE) >>

profanity_words == {"damn", "hell", "crap", "stupid", "idiot"}

\* A phrase occurs at position i of the message, ignoring case.
PhraseAt(message, phrase, i) ==
    /\ i + Len(phrase) - 1 <= Len(message)
    /\ \A k \in 1..Len(phrase) : Lower(message[i + k - 1]) = phrase[k]

\* The card pattern at position i: four groups of four digits separated by spaces.
CardAt(message, i) ==
    /\ i + 3 <= Len(message)
    /\ \A k \in 0..3 : TokenShape(message[i + k]) = "d4"

\* The number of tokens the pattern matches at position i, 0 for no match.
MatchLen(message, pattern, i) ==
    IF TokenShape(message[i]) \in pattern.shapes THEN 1
    ELSE IF pattern.card /\ CardAt(message, i) THEN 4
    ELSE IF \E p \in pattern.phrases : PhraseAt(message, p, i)
         THEN Len(CHOOSE p \in pattern.phrases : PhraseAt(message, p, i))
    ELSE 0

RECURSIVE FindAll(_, _, _)
\* pattern.findall(message): the non-overlapping matches from position i on,
\* each match given as the tokens it covers.
FindAll(message, pattern, i) ==
    IF i > Len(message) THEN <<>>
    ELSE LET n == MatchLen(message, pattern, i)
         IN IF n > 0
            THEN <<SubSeq(message, i, i + n - 1)>> \o FindAll(message, pattern, i + n)
            ELSE FindAll(message, pattern, i + 1)

RECURSIVE check_patterns(_, _)
\* KeywordFilter.check_patterns: the matches of every pattern, pattern by pattern.
check_patterns(message, patterns) ==
    IF patterns = <<>> THEN <<>>
    ELSE FindAll(message, Head(patterns), 1) \o check_patterns(message, Tail(patterns))

\* KeywordFilter.check_banned_words: the banned, not whitelisted, words.
check_banned_words(message) ==
    LET IsBanned(w) == w \in banned_words /\ w \notin whitelist_words
        matched == SelectSeq(Words(message), IsBanned)
    IN [i \in 1..Len(matched) |-> <<matched[i]>>]

\* KeywordFilter.filter_message with the toxic branch tested before the PII one.
KeywordFilter_filter_message_ToxicFirst(message) ==
    LET banned_matches == check_banned_words(message)
        toxic_matches == check_patterns(message, toxic_patterns)
        spam_matches == check_patterns(message, spam_patterns)
        pii_matches == check_patterns(message, pii_patterns)
        all_matches == banned_matches \o toxic_matches \o spam_matches \o pii_matches
    IN IF Len(toxic_matches) > 0 \/ Len(banned_matches) > 0
       THEN [should_process |-> TRUE, filter_decision |-> "likely_toxic",
             confidence |-> 80, matched_patterns |-> all_matches]
       ELSE IF Len(pii_matches) > 0
       THEN [should_process |-> FALSE, filter_decision |-> "block_pii",
             confidence |-> 95, matched_patterns |-> all_matches]
       ELSE IF Len(spam_matches) > 0
       THEN [should_process |-> TRUE, filter_decision |-> "likely_spam",
             confidence |-> 70, matched_patterns |-> all_matches]
       ELSE [should_process |-> TRUE, filter_decision |-> "pass",
             confidence |-> 60, matched_patterns |-> all_matches]

\* KeywordFilter.filter_message
KeywordFilter_filter_message(message) ==
    LET banned_matches == check_banned_words(message)
        toxic_matches == check_patterns(message, toxic_patterns)
        spam_matches == check_patterns(message, spam_patterns)
        pii_matches == check_patterns(message, pii_patterns)
        has_banned == Len(banned_matches) > 0
        has_toxic == Len(toxic_matches) > 0
        has_spam == Len(spam_matches) > 0
        has_pii == Len(pii_matches) > 0
        all_matches == banned_matches \o toxic_matches \o spam_matches \o pii_matches
    IN IF has_pii
       THEN [should_process |-> FALSE, filter_decision |-> "block_pii",
             confidence |-> 95, matched_patterns |-> all_matches]
       ELSE IF has_toxic \/ has_banned
       THEN [should_process |-> TRUE, filter_decision |-> "likely_toxic",
             confidence |-> 80, matched_patterns |-> all_matches]
       ELSE IF has_spam
       THEN [should_process |-> TRUE, filter_decision |-> "likely_spam",
             confidence |-> 70, matched_patterns |-> all_matches]
       ELSE [should_process |-> TRUE, filter_decision |-> "pass",
             confidence |-> 60, matched_patterns |-> all_matches]

\* ProfanityFilter.contains_profanity: the profanity words found.
contains_profanity(message) ==
    LET IsProfane(w) == w \in profanity_words
        found == SelectSeq(Words(message), IsProfane)
    IN [i \in 1..Len(found) |-> <<found[i]>>]


(***************************************************************************)
(* State.                                                                  *)
(***************************************************************************)
VARIABLES
    \* Filter service
    enabled_filters,        \* LightweightFilter.enabled_filters
    user_message_counts,    \* RateLimitFilter.user_message_counts
    now,                    \* time.time() of the Filter service
    filter_request,         \* the last request to the Filter service
    filter_response,        \* the HTTP response to it
    submissions,            \* history: every /filter call, in order
    \* MCP server
    templates,              \* PromptTemplate.templates
    max_retries,            \* LLMClient.max_retries
    mcp_pc,                 \* where the /moderate handler stands
    mcp_request,            \* the ModerationRequest being handled
    mcp_template,           \* the template resolved for it
    attempt,                \* the loop variable of generate_response
    llm_posts,              \* history: the prompts posted to the LLM backend
    llm_events,             \* history: attempts and sleeps of generate_response
    mcp_response,           \* the HTTP response of /moderate
    \* Ingress (chat simulator)
    pipeline,               \* per request: where process_message stands, its locals
    mcp_calls,              \* history: per request, the POSTs to MCP /moderate
    broadcast_log,          \* history: the records handed to broadcast_message
    \* Decision Handler
    user_violations,        \* table user_violations, by user_id
    moderation_decisions,   \* table moderation_decisions, in insertion order
    process,                \* per /process call: where it stands, its locals
    violations_at_start,    \* history: user_violations when the service started
    \* Ingress: WebSocket connections and the generator loop
    active_connections,     \* ChatSimulator.active_connections
    ACTIVE_CONNECTIONS,     \* the gauge chat_active_websocket_connections
    ws,                     \* per connection: where its /ws handler stands
    broadcast,              \* per broadcast_message call: its locals
    simulation_active,      \* ChatSimulator.simulation_active
    loops                   \* per task of simulate_chat_stream: where it stands

\* No request handled yet, and no response given yet.
NoRequest == [path |-> "none"]
NoResponse == [status |-> 0]

FilterNames == {"keywords", "profanity", "rate_limit"}
\* The names a toggle call may carry: the three filters and an unknown one.
ToggleNames == FilterNames \cup {"pii"}

(***************************************************************************)
(* RateLimitFilter                                                         *)
(***************************************************************************)
\* The user's bucket; a user the dict does not hold yet starts with [].
Bucket(counts, user_id) ==
    IF user_id \in DOMAIN counts THEN counts[user_id] ELSE <<>>

\* The bucket after pruning the timestamps a window or more old and adding the
\* current one.
PruneAndAppend(bucket, current_time) ==
    LET Recent(timestamp) == current_time - timestamp < rate_limit_window
    IN Append(SelectSeq(bucket, Recent), current_time)

\* OverLimit with the limit off by one.
OverLimit_OffByOne(bucket) == Len(bucket) > max_messages_per_window + 1

\* The final test of is_rate_limited, on the updated bucket.
OverLimit(bucket) == Len(bucket) > max_messages_per_window

\* is_rate_limited keeping the timestamps of accepted submissions only.
is_rate_limited_AcceptedOnly(counts, user_id, current_time) ==
    LET Recent(timestamp) == current_time - timestamp < rate_limit_window
        pruned == SelectSeq(Bucket(counts, user_id), Recent)
        limited == Len(pruned) >= max_messages_per_window
        bucket == IF limited THEN pruned ELSE Append(pruned, current_time)
    IN [counts |-> [u \in DOMAIN counts \cup {user_id} |->
                        IF u = user_id THEN bucket ELSE counts[u]],
        limited |-> limited]

\* RateLimitFilter.is_rate_limited: the new dict and the answer.
is_rate_limited(counts, user_id, current_time) ==
    LET bucket == PruneAndAppend(Bucket(counts, user_id), current_time)
    IN [counts |-> [u \in DOMAIN counts \cup {user_id} |->
                        IF u = user_id THEN bucket ELSE counts[u]],
        limited |-> OverLimit(bucket)]

(***************************************************************************)
(* LightweightFilter.process_message                                       *)
(***************************************************************************)
\* self.keyword_filter and self.profanity_filter: with the configuration
\* fixed at start-up, what each answers to every message of the model.
keyword_filter ==
    [message \in FilterMessages |-> KeywordFilter_filter_message(message)]
profanity_filter ==
    [message \in FilterMessages |-> contains_profanity(message)]

\* Max taking the smaller value.
Max_Smaller(a, b) == IF a >= b THEN b ELSE a

\* The builtin max of two numbers.
Max(a, b) == IF a >= b THEN a ELSE b

Returned(response) == [raised |-> FALSE, response |-> response]
Raised(error) == [raised |-> TRUE, error |-> error]

\* LightweightFilter.process_message with the keyword block tested before the
\* rate limit.
LightweightFilter_process_message_KeywordsFirst(enabled, limited, message) ==
    LET keyword_result == keyword_filter[message]
    IN IF enabled["keywords"] /\ ~keyword_result.should_process
       THEN Returned([should_process |-> FALSE,
                      filter_decision |-> keyword_result.filter_decision,
                      confidence |-> keyword_result.confidence,
                      matched_patterns |-> keyword_result.matched_patterns,
                      filter_type |-> "keyword"])
       ELSE IF enabled["rate_limit"] /\ limited
       THEN Returned([should_process |-> FALSE, filter_decision |-> "rate_limited",
                      confidence |-> 100,
                      matched_patterns |-> << <<"rate_limit_exceeded">> >>,
                      filter_type |-> "rate_limit"])
       ELSE IF ~enabled["keywords"]
       THEN Raised("UnboundLocalError")
       ELSE Returned([should_process |-> TRUE, filter_decision |-> "pass",
                      confidence |-> 90,
                      matched_patterns |-> keyword_result.matched_patterns,
                      filter_type |-> "combined"])

\* LightweightFilter.process_message after the rate-limit step: `limited` is
\* the answer of is_rate_limited, FALSE when the rate limit is disabled.  With
\* the keyword filter disabled keyword_result is never assigned and its first
\* use raises UnboundLocalError.
LightweightFilter_process_message(enabled, limited, message) ==
    IF enabled["rate_limit"] /\ limited
    THEN Returned([should_process |-> FALSE, filter_decision |-> "rate_limited",
                   confidence |-> 100,
                   matched_patterns |-> << <<"rate_limit_exceeded">> >>,
                   filter_type |-> "rate_limit"])
    ELSE LET keyword_result == keyword_filter[message]
             profanity_matches ==
                 IF enabled["profanity"] THEN profanity_filter[message] ELSE <<>>
         IN IF enabled["keywords"] /\ ~keyword_result.should_process
            THEN Returned([should_process |-> FALSE,
                           filter_decision |-> keyword_result.filter_decision,
                           confidence |-> keyword_result.confidence,
                           matched_patterns |-> keyword_result.matched_patterns,
                           filter_type |-> "keyword"])
            ELSE IF ~enabled["keywords"]
            THEN Raised("UnboundLocalError")
            ELSE IF keyword_result.filter_decision = "likely_toxic"
                    \/ profanity_matches # <<>>
            THEN Returned([should_process |-> TRUE, filter_decision |-> "flagged",
                           confidence |->
                               Max(keyword_result.confidence,
                                   IF profanity_matches # <<>> THEN 70 ELSE 0),
                           matched_patterns |->
                               keyword_result.matched_patterns \o profanity_matches,
                           filter_type |-> "combined"])
            ELSE Returned([should_process |-> TRUE, filter_decision |-> "pass",
                           confidence |-> 90,
                           matched_patterns |->
                               keyword_result.matched_patterns \o profanity_matches,
                           filter_type |-> "combined"])

\* The /filter endpoint answering an exception with a fail-open verdict.
filter_endpoint_response_FailOpen(outcome) ==
    IF outcome.raised
    THEN [status |-> 200,
          body |-> [should_process |-> TRUE, filter_decision |-> "pass",
                    confidence |-> 50, matched_patterns |-> <<>>,
                    filter_type |-> "combined"]]
    ELSE [status |-> 200, body |-> outcome.response]

\* The /filter endpoint: the verdict, or HTTP 500 when processing raised.
filter_endpoint_response(outcome) ==
    IF outcome.raised
    THEN [status |-> 500, detail |-> outcome.error]
    ELSE [status |-> 200, body |-> outcome.response]

(***************************************************************************)
(* Filter service: actions                                                 *)
(***************************************************************************)
filterVars == <<enabled_filters, user_message_counts, now, filter_request,
                filter_response, submissions>>

\* The clock of the Filter service advances.
Tick ==
    /\ now < MaxTime
    /\ now' = now + 1
    /\ UNCHANGED <<enabled_filters, user_message_counts, filter_request,
                   filter_response, submissions>>

\* POST /filter
filter_message(user_id, message) ==
    /\ Len(submissions) < MaxCalls
    /\ LET rl == IF enabled_filters["rate_limit"]
                 THEN is_rate_limited(user_message_counts, user_id, now)
                 ELSE [counts |-> user_message_counts, limited |-> FALSE]
           outcome == LightweightFilter_process_message(enabled_filters, rl.limited, message)
           response == filter_endpoint_response(outcome)
       IN /\ user_message_counts' = rl.counts
          /\ filter_request' = [path |-> "/filter", user_id |-> user_id,
                                 message |-> message]
          /\ filter_response' = response
          /\ submissions' = Append(submissions,
                 [user_id |-> user_id, time |-> now,
                  rate_limit |-> enabled_filters["rate_limit"],
                  rate_limited |-> (response.status = 200
                                    /\ response.body.filter_decision = "rate_limited")])
    /\ UNCHANGED <<enabled_filters, now>>

\* POST /config/toggle/{filter_name}?enabled=...
toggle_filter(filter_name, enabled) ==
    /\ filter_request' = [path |-> "/config/toggle", filter_name |-> filter_name,
                           enabled |-> enabled]
    /\ IF filter_name \in DOMAIN enabled_filters
       THEN /\ enabled_filters' = [enabled_filters EXCEPT ![filter_name] = enabled]
            /\ filter_response' = [status |-> 200]
       ELSE /\ enabled_filters' = enabled_filters
            /\ filter_response' = [status |-> 404]
    /\ UNCHANGED <<user_message_counts, now, submissions>>

FilterNext ==
    \/ Tick
    \/ \E user_id \in Users, message \in FilterMessages : filter_message(user_id, message)
    \/ \E filter_name \in ToggleNames, enabled \in BOOLEAN : toggle_filter(filter_name, enabled)

(***************************************************************************)
(* MCP server: templates                                                   *)
(***************************************************************************)
\* PromptTemplate._get_default_templates: used when no template file is found.
DefaultTemplates ==
    [n \in {"moderation_prompt"} |->
        [name |-> "moderation_prompt", version |-> "1.0",
         prompt |-> <<"Classify:", "{chat_message}", "Respond-with-JSON">>]]

\* A template file with a second template, as load_templates would read it.
LoadedTemplates ==
    [n \in {"moderation_prompt", "strict_prompt"} |->
        IF n = "moderation_prompt"
        THEN [name |-> "moderation_prompt", version |-> "1.0",
              prompt |-> <<"Classify:", "{chat_message}", "Respond-with-JSON">>]
        ELSE [name |-> "strict_prompt", version |-> "2.0",
              prompt |-> <<"Strict:", "{user_id}", "{channel_id}", "{chat_message}">>]]

\* The template names a request may carry; "missing" is in no catalogue.
TemplateNames == {"moderation_prompt", "strict_prompt", "missing"}

\* get_template answering with the default template whatever the name.
get_template_AlwaysDefault(catalogue, template_name) == catalogue["moderation_prompt"]

\* PromptTemplate.get_template: the named template, else the default one.
get_template(catalogue, template_name) ==
    IF template_name \in DOMAIN catalogue
    THEN catalogue[template_name]
    ELSE catalogue["moderation_prompt"]

RECURSIVE Replace(_, _, _)
\* str.replace on the tokens of a prompt: every occurrence of key by value.
Replace(prompt, key, value) ==
    IF prompt = <<>> THEN <<>>
    ELSE (IF Head(prompt) = key THEN value ELSE <<Head(prompt)>>)
         \o Replace(Tail(prompt), key, value)

\* PromptTemplate.format_prompt with the keyword arguments of
\* process_moderation_request, replaced in their order.
format_prompt(catalogue, template_name, chat_message, user_id, channel_id) ==
    LET prompt == get_template(catalogue, template_name).prompt
        p1 == Replace(prompt, "{chat_message}", chat_message)
        p2 == Replace(p1, "{user_id}", <<user_id>>)
    IN Replace(p2, "{channel_id}", <<channel_id>>)

(***************************************************************************)
(* MCP server: input validation                                            *)
(***************************************************************************)
McpMessages ==
    { <<"hello">>,
      <<"You", "are", "an", "idiot">>,
      <<"SYSTEM:", "hello">>,
      <<"Ignore", "previous", "instructions">>,
      <<"###">>,
      <<"{user_id}", "hello">>,
      <<"a*1994", "hello">>,
      <<"a*1994", "stupid">> }

\* len() of a token; "a*1994" stands for a run of 1994 letters.
TokenLen(tok) ==
    CASE tok = "a*1994" -> 1994
      [] tok \in {"hello", "idiot"} -> 5
      [] tok \in {"stupid", "Ignore"} -> 6
      [] tok \in {"You", "are", "###"} -> 3
      [] tok = "an" -> 2
      [] tok = "SYSTEM:" -> 7
      [] tok = "previous" -> 8
      [] tok = "instructions" -> 12
      [] tok = "{user_id}" -> 9
      [] OTHER -> 1

RECURSIVE MessageLen(_)
\* len(message): the tokens and the single spaces between them.
MessageLen(message) ==
    IF message = <<>> THEN 0
    ELSE IF Len(message) = 1 THEN TokenLen(message[1])
    ELSE TokenLen(Head(message)) + 1 + MessageLen(Tail(message))

\* injection_patterns, each as the word sequence a text must contain.
injection_patterns ==
    << <<"ignore", "previous", "instructions">>, <<"system:">>, <<"assistant:">>,
       <<"user:">>, <<"prompt:">>, <<"###">>, <<"---">> >>

\* `pattern in text` for a text given as tokens (already case-mapped).
Contains(text, pattern) ==
    \E i \in 1..Len(text) :
        /\ i + Len(pattern) - 1 <= Len(text)
        /\ \A k \in 1..Len(pattern) : text[i + k - 1] = pattern[k]

\* validate_input testing the patterns against the message as sent.
validate_input_CaseSensitive(message) ==
    /\ \A i \in 1..Len(injection_patterns) : ~Contains(message, injection_patterns[i])
    /\ ~(MessageLen(message) > 2000)

\* ValidationService.validate_input
validate_input(message) ==
    LET lowered == [i \in 1..Len(message) |-> Lower(message[i])]
    IN /\ \A i \in 1..Len(injection_patterns) : ~Contains(lowered, injection_patterns[i])
       /\ ~(MessageLen(message) > 2000)

(***************************************************************************)
(* MCP server: the LLM backend and the parsing of its content              *)
(***************************************************************************)
JsonObject(fields) == [type |-> "object", fields |-> fields]
NotJson == [type |-> "invalid"]
NoMatch == [type |-> "nomatch"]
Verdict3(decision, confidence, reasoning) ==
    JsonObject([decision |-> decision, confidence |-> confidence,
                reasoning |-> reasoning])

\* A content returned by the LLM, by what the parser sees of it: json.loads of
\* the whole content, json.loads of group 1 of each of the four json_patterns
\* (NoMatch when the pattern does not match), and the indicator phrases the
\* lower-cased content contains.
Content(whole, extracted, phrases) ==
    [whole |-> whole, extracted |-> extracted, phrases |-> phrases]

LlmContents ==
    { \* {"decision": "Toxic", "confidence": 0.92, "reasoning": "slur"}
      Content(Verdict3("Toxic", 92, "slur"), <<NoMatch, NoMatch, NoMatch, NoMatch>>, {}),
      \* Sure - here is the answer: ```json {...} ```
      Content(NotJson,
              <<Verdict3("Toxic", 92, "slur"), NoMatch,
                Verdict3("Toxic", 92, "slur"), Verdict3("Toxic", 92, "slur")>>, {}),
      \* prose naming harassment, no JSON
      Content(NotJson, <<NoMatch, NoMatch, NoMatch, NoMatch>>, {"harassment", "not toxic"}),
      \* prose with a safe indicator only
      Content(NotJson, <<NoMatch, NoMatch, NoMatch, NoMatch>>, {"friendly"}),
      \* prose with no indicator
      Content(NotJson, <<NoMatch, NoMatch, NoMatch, NoMatch>>, {}),
      \* a JSON list
      Content([type |-> "array"], <<NoMatch, NoMatch, NoMatch, NoMatch>>, {}),
      \* null
      Content([type |-> "null"], <<NoMatch, NoMatch, NoMatch, NoMatch>>, {}),
      \* {"decision": "Maybe", "confidence": 1.5, "reasoning": "unsure"}
      Content(Verdict3("Maybe", 150, "unsure"), <<NoMatch, NoMatch, NoMatch, NoMatch>>, {}),
      \* {}
      Content(JsonObject(<<>>), <<NoMatch, NoMatch, NoMatch, NoMatch>>, {}),
      \* ```json {bad} ``` ``` {"confidence": 0.8} ``` {"decision": "Toxic", ...}
      \* (the last pattern matches from the first brace on, which is no JSON)
      Content(NotJson,
              <<NotJson, JsonObject([confidence |-> 80]),
                Verdict3("Toxic", 92, "slur"), NotJson>>, {}),
      \* a friendly note: ```json {} ``` {"decision": "Toxic", ...}
      Content(NotJson,
              <<JsonObject(<<>>), NoMatch, Verdict3("Toxic", 92, "slur"), NotJson>>,
              {"friendly"}) }

\* The ways one attempt can fail: transport error or timeout, a non-2xx
\* status, a body without choices[0].message.content.
LlmFailures == {"ConnectError", "HTTPStatusError", "KeyError"}

toxic_phrases ==
    {"\"decision\": \"toxic\"", "decision is toxic", "classify as toxic",
     "this is toxic", "message is toxic", "contains toxic", "toxic content",
     "personal attack", "harassment", "hate speech", "inappropriate"}

safe_phrases ==
    {"\"decision\": \"non-toxic\"", "decision is non-toxic", "not toxic",
     "safe message", "no toxicity", "appropriate content", "friendly", "greeting"}

\* The fallback loop over json_patterns: the first pattern that matches and
\* whose group parses as JSON; NoMatch when none does.
RECURSIVE FirstExtracted(_, _)
FirstExtracted(extracted, i) ==
    IF i > Len(extracted) THEN NoMatch
    ELSE IF extracted[i].type \notin {"nomatch", "invalid"} THEN extracted[i]
    ELSE FirstExtracted(extracted, i + 1)

\* `not response_data`: None or an empty dict.
Falsy(data) == data.type = "nomatch" \/ (data.type = "object" /\ DOMAIN data.fields = {})

\* The last resort: keyword analysis of the lower-cased content.
KeywordVerdict(phrases) ==
    IF phrases \cap toxic_phrases # {}
    THEN Verdict3("Toxic", 70, "Text analysis - toxic indicators found")
    ELSE IF phrases \cap safe_phrases # {}
    THEN Verdict3("Non-Toxic", 70, "Text analysis - no toxic indicators")
    ELSE Verdict3("Non-Toxic", 50, "Unable to determine from LLM response")

\* The parsing cascade of process_moderation_request: the response_data.
parse_content(content) ==
    IF content.whole.type # "invalid" THEN content.whole
    ELSE LET found == FirstExtracted(content.extracted, 1)
         IN IF Falsy(found) THEN KeywordVerdict(content.phrases) ELSE found

\* dict.get with a default.
Get(data, key, default) ==
    IF key \in DOMAIN data.fields THEN data.fields[key] ELSE default

\* The ModerationResponse built from response_data; response_data.get raises
\* AttributeError when the parsed JSON is not an object.
build_response(response_data, template) ==
    IF response_data.type # "object"
    THEN Raised("AttributeError")
    ELSE Returned([decision |-> Get(response_data, "decision", "Non-Toxic"),
                   confidence |-> Get(response_data, "confidence", 50),
                   reasoning |-> Get(response_data, "reasoning", ""),
                   template_version |-> template.version])

\* The outer `except Exception` of process_moderation_request: whatever was
\* raised inside, an HTTPException included, becomes HTTP 500.
handler_error(status, cause) == [status |-> 500, detail |-> cause]

RECURSIVE Pow2(_)
Pow2(n) == IF n = 0 THEN 1 ELSE 2 * Pow2(n - 1)

\* The backoff of generate_response with a constant wait.
backoff_seconds_Constant(attempt_index) == 1

\* asyncio.sleep(2 ** attempt)
backoff_seconds(attempt_index) == Pow2(attempt_index)

\* `if attempt == self.max_retries - 1`: the failed attempt was the last one.
is_last_attempt(attempt_index, retries) == attempt_index = retries - 1

\* `for attempt in range(self.max_retries)`: attempt_index is in the range.
more_attempts(attempt_index, retries) == attempt_index < retries

(***************************************************************************)
(* MCP server: actions                                                     *)
(***************************************************************************)
mcpVars == <<templates, max_retries, mcp_pc, mcp_request, mcp_template, attempt,
             llm_posts, llm_events, mcp_response>>

\* POST /moderate, up to the first suspension: validation, rendering and the
\* entry of the retry loop of generate_response.
moderate_message(message, user_id, channel_id, template_name) ==
    /\ mcp_pc \in {"idle", "done"}
    /\ mcp_request' = [path |-> "/moderate", message |-> message, user_id |-> user_id,
                       channel_id |-> channel_id, template_name |-> template_name]
    /\ llm_posts' = <<>>
    /\ llm_events' = <<>>
    /\ attempt' = 0
    /\ IF ~validate_input(message)
       THEN /\ mcp_pc' = "done"
            /\ mcp_template' = NoRequest
            /\ mcp_response' = handler_error(400, "Invalid input detected")
       ELSE /\ mcp_template' = get_template(templates, template_name)
            /\ IF more_attempts(0, max_retries)
               THEN /\ mcp_pc' = "post"
                    /\ mcp_response' = NoResponse
               ELSE \* the loop body never runs: generate_response returns
                    \* None and llm_response["content"] raises TypeError
                    /\ mcp_pc' = "done"
                    /\ mcp_response' = handler_error(500, "TypeError")
    /\ UNCHANGED <<templates, max_retries>>

\* The prompt generate_response posts for the request being handled.
FormattedPrompt ==
    format_prompt(templates, mcp_request.template_name, mcp_request.message,
                  mcp_request.user_id, mcp_request.channel_id)

\* One attempt of generate_response succeeds with a content; the handler
\* parses it and answers.
llm_attempt_succeeds(content) ==
    /\ mcp_pc = "post"
    /\ llm_posts' = Append(llm_posts, FormattedPrompt)
    /\ llm_events' = Append(llm_events, [kind |-> "attempt", ok |-> TRUE,
                                          content |-> content])
    /\ LET built == build_response(parse_content(content), mcp_template)
       IN mcp_response' = IF built.raised
                          THEN handler_error(500, built.error)
                          ELSE [status |-> 200, body |-> built.response]
    /\ mcp_pc' = "done"
    /\ UNCHANGED <<templates, max_retries, mcp_request, mcp_template, attempt>>

\* One attempt of generate_response fails: HTTP 503 after the last attempt,
\* else the backoff sleep.
llm_attempt_fails(failure) ==
    /\ mcp_pc = "post"
    /\ llm_posts' = Append(llm_posts, FormattedPrompt)
    /\ llm_events' = Append(llm_events, [kind |-> "attempt", ok |-> FALSE,
                                          failure |-> failure])
    /\ IF is_last_attempt(attempt, max_retries)
       THEN /\ mcp_pc' = "done"
            /\ mcp_response' = handler_error(503, failure)
       ELSE /\ mcp_pc' = "sleep"
            /\ mcp_response' = mcp_response
    /\ UNCHANGED <<templates, max_retries, mcp_request, mcp_template, attempt>>

\* The backoff sleep ends and the loop goes to its next attempt.
backoff_sleep ==
    /\ mcp_pc = "sleep"
    /\ llm_events' = Append(llm_events, [kind |-> "sleep",
                                          seconds |-> backoff_seconds(attempt)])
    /\ attempt' = attempt + 1
    /\ IF more_attempts(attempt + 1, max_retries)
       THEN /\ mcp_pc' = "post"
            /\ mcp_response' = mcp_response
       ELSE \* the loop ends without a result: generate_response returns None
            /\ mcp_pc' = "done"
            /\ mcp_response' = handler_error(500, "TypeError")
    /\ UNCHANGED <<templates, max_retries, mcp_request, mcp_template, llm_posts>>

MCPNext ==
    \/ \E message \in McpMessages, template_name \in TemplateNames :
           moderate_message(message, "u1", "general", template_name)
    \/ \E content \in LlmContents : llm_attempt_succeeds(content)
    \/ \E failure \in LlmFailures : llm_attempt_fails(failure)
    \/ backoff_sleep

(***************************************************************************)
(* Ingress: ChatSimulator.process_message and its callers                  *)
(***************************************************************************)
Requests == {"r1", "r2"}

\* The entry points that run the pipeline: POST /api/send-message,
\* POST /simulate/single, one iteration of simulate_chat_stream.
EntryPoints == {"send_user_message", "simulate_single_message", "simulate_chat_stream"}

IngressMessages ==
    { <<"hello", "world">>,
      <<"My", "email", "is", "jane@acme.io">>,
      <<"You", "are", "an", "idiot">> }

\* None
NoValue == [none |-> TRUE]

\* What the POST to the Filter can come to: the response the Filter service
\* gives to the message in some state of its toggles and rate limiter, or no
\* response at all (timeout, connection error).
FilterOutcomes(message) ==
    { filter_endpoint_response(LightweightFilter_process_message(enabled, limited, message)) :
          enabled \in [FilterNames -> BOOLEAN], limited \in BOOLEAN }
    \cup {[status |-> 0, error |-> "TimeoutException"]}

\* What the POST to MCP /moderate can come to; status 0 stands for no
\* response, with the exception the HTTP client raised.
McpOutcomes ==
    { [status |-> 200, body |-> [decision |-> "Toxic", confidence |-> 92]],
      [status |-> 200, body |-> [decision |-> "Non-Toxic", confidence |-> 50]],
      [status |-> 500],
      [status |-> 0, error |-> "TimeoutException"],
      [status |-> 0, error |-> "ConnectError"] }

\* send_to_filter stopping the message when the Filter call fails.
send_to_filter_FailClosed(outcome) ==
    IF outcome.status = 200
    THEN outcome.body
    ELSE [should_process |-> FALSE, filter_decision |-> "block"]

\* ModerationClient.send_to_filter: the JSON body of a 2xx response, else the
\* synthesized pass verdict.
send_to_filter(outcome) ==
    IF outcome.status = 200
    THEN outcome.body
    ELSE [should_process |-> TRUE, filter_decision |-> "pass"]

\* ModerationClient.send_to_mcp: the JSON body of a 2xx response, else an
\* Error verdict naming the cause.
send_to_mcp(outcome) ==
    IF outcome.status = 200
    THEN outcome.body
    ELSE IF outcome.status = 0 /\ outcome.error = "TimeoutException"
    THEN [decision |-> "Error", confidence |-> 0, reasoning |-> "Request timeout"]
    ELSE IF outcome.status # 0
    THEN [decision |-> "Error", confidence |-> 0, reasoning |-> "HTTP error"]
    ELSE [decision |-> "Error", confidence |-> 0, reasoning |-> outcome.error]

\* The test of process_message with the MCP called for every message.
should_call_mcp_Always(filter_result) == TRUE

\* `if filter_result.get("should_process", True)`
should_call_mcp(filter_result) ==
    IF "should_process" \in DOMAIN filter_result
    THEN filter_result.should_process
    ELSE TRUE

\* The record process_message returns (timings left out).
PipelineRecord(message, filter_result, moderation_result) ==
    [type |-> "chat_message", message |-> message, filter_result |-> filter_result,
     moderation_result |-> moderation_result]

ingressVars == <<pipeline, mcp_calls, broadcast_log>>

\* A request not yet started; filter_outcome and mcp_outcome keep what the
\* two POSTs came to, for the properties only.
IdlePipeline ==
    [pc |-> "idle", entry |-> "none", message |-> <<>>, filter_result |-> NoValue,
     moderation_result |-> NoValue, result |-> NoValue,
     filter_outcome |-> NoValue, mcp_outcome |-> NoValue]

\* An entry point starts process_message, which posts the message to the
\* Filter and waits.
process_message_start(r, entry, message) ==
    /\ pipeline[r].pc = "idle"
    /\ pipeline' = [pipeline EXCEPT ![r] =
                        [@ EXCEPT !.pc = "send_to_filter", !.entry = entry,
                                  !.message = message]]
    /\ UNCHANGED <<mcp_calls, broadcast_log>>

\* send_to_filter returns; process_message either posts to the MCP and waits
\* or, for a message the filter stops, builds its record at once.
process_message_filtered(r, outcome) ==
    /\ pipeline[r].pc = "send_to_filter"
    /\ LET filter_result == send_to_filter(outcome)
       IN IF should_call_mcp(filter_result)
          THEN /\ pipeline' = [pipeline EXCEPT ![r] =
                                  [@ EXCEPT !.pc = "send_to_mcp",
                                            !.filter_outcome = outcome,
                                            !.filter_result = filter_result]]
               /\ mcp_calls' = [mcp_calls EXCEPT ![r] = @ + 1]
          ELSE /\ pipeline' = [pipeline EXCEPT ![r] =
                                  [@ EXCEPT !.pc = "returned",
                                            !.filter_outcome = outcome,
                                            !.filter_result = filter_result,
                                            !.result = PipelineRecord(
                                                pipeline[r].message, filter_result,
                                                NoValue)]]
               /\ mcp_calls' = mcp_calls
    /\ UNCHANGED broadcast_log

\* send_to_mcp returns and process_message builds its record.
process_message_moderated(r, outcome) ==
    /\ pipeline[r].pc = "send_to_mcp"
    /\ LET moderation_result == send_to_mcp(outcome)
       IN pipeline' = [pipeline EXCEPT ![r] =
                          [@ EXCEPT !.pc = "returned",
                                    !.mcp_outcome = outcome,
                                    !.moderation_result = moderation_result,
                                    !.result = PipelineRecord(
                                        pipeline[r].message, pipeline[r].filter_result,
                                        moderation_result)]]
    /\ UNCHANGED <<mcp_calls, broadcast_log>>

\* broadcasts with the generator loop leaving its records out.
broadcasts_UserMessagesOnly(entry) == entry = "send_user_message"

\* The entry points that call broadcast_message with the record:
\* send_user_message and simulate_chat_stream; simulate_single_message only
\* returns it.
broadcasts(entry) == entry \in {"send_user_message", "simulate_chat_stream"}

\* The entry point goes on with the record.
entry_point_finish(r) ==
    /\ pipeline[r].pc = "returned"
    /\ pipeline' = [pipeline EXCEPT ![r] = [@ EXCEPT !.pc = "done"]]
    /\ broadcast_log' =
           IF broadcasts(pipeline[r].entry)
           THEN Append(broadcast_log, [request |-> r, data |-> pipeline[r].result])
           ELSE broadcast_log
    /\ UNCHANGED mcp_calls

IngressNext ==
    \/ \E r \in Requests, entry \in EntryPoints, message \in IngressMessages :
           process_message_start(r, entry, message)
    \/ \E r \in Requests :
           /\ pipeline[r].pc = "send_to_filter"
           /\ \E outcome \in FilterOutcomes(pipeline[r].message) :
                  process_message_filtered(r, outcome)
    \/ \E r \in Requests, outcome \in McpOutcomes : process_message_moderated(r, outcome)
    \/ \E r \in Requests : entry_point_finish(r)

(***************************************************************************)
(* Ingress: WebSocket connections, broadcast_message, the generator loop   *)
(***************************************************************************)
\* The WebSocket connections, the broadcast_message calls and the tasks of
\* simulate_chat_stream of one behaviour.
Connections == {"c1", "c2"}
Broadcasts == {"b1", "b2"}
Tasks == {"t1", "t2"}

\* A connection is "new" (not yet made), "open" (its handler waiting in
\* receive_text), "dropped" (closed by the client, the handler not yet told),
\* "disconnected" (handler over after WebSocketDisconnect) or "crashed"
\* (handler over with another exception; the server then closes the socket).

\* The control frames a client may send: the two commands, a JSON object
\* with another action, and text that is no JSON.
Frames == {"start_simulation", "stop_simulation", "other", "not-json"}

\* list.remove(websocket) behind `if websocket in self.active_connections`.
remove_connection(connections, websocket) ==
    LET Other(c) == c # websocket IN SelectSeq(connections, Other)

\* The gauge after remove_connection: set only when the connection was there.
gauge_after_remove(connections, websocket, gauge) ==
    IF \E i \in 1..Len(connections) : connections[i] = websocket
    THEN Len(remove_connection(connections, websocket))
    ELSE gauge

RECURSIVE remove_all(_, _)
\* The second loop of broadcast_message: remove_connection for each of the
\* connections whose send failed.
remove_all(connections, disconnected) ==
    IF disconnected = <<>> THEN connections
    ELSE remove_all(remove_connection(connections, Head(disconnected)),
                    Tail(disconnected))

\* The list iterator of `for connection in self.active_connections`: it
\* reads the list itself, at its own index, at every step.
iterator_has_next(consumed, connections) == consumed < Len(connections)
iterator_next(consumed, connections) == connections[consumed + 1]

\* connection.send_json succeeds on an open connection only.
send_json_ok(state) == state = "open"

IdleBroadcast ==
    [pc |-> "idle", consumed |-> 0, connection |-> "none", snapshot |-> <<>>,
     sent |-> <<>>, disconnected |-> <<>>]

wsVars == <<active_connections, ACTIVE_CONNECTIONS, ws, broadcast,
            simulation_active, loops>>

\* /ws: add_connection accepts the socket, appends it and sets the gauge;
\* the handler then waits in receive_text.
websocket_endpoint(c) ==
    /\ ws[c] = "new"
    /\ ws' = [ws EXCEPT ![c] = "open"]
    /\ active_connections' = Append(active_connections, c)
    /\ ACTIVE_CONNECTIONS' = Len(active_connections) + 1
    /\ UNCHANGED <<broadcast, simulation_active, loops>>

\* The client closes the socket; its handler is still waiting.
client_close(c) ==
    /\ ws[c] = "open"
    /\ ws' = [ws EXCEPT ![c] = "dropped"]
    /\ UNCHANGED <<active_connections, ACTIVE_CONNECTIONS, broadcast,
                   simulation_active, loops>>

\* receive_text raises WebSocketDisconnect: the handler removes the
\* connection and ends.
websocket_disconnect(c) ==
    /\ ws[c] = "dropped"
    /\ ws' = [ws EXCEPT ![c] = "disconnected"]
    /\ active_connections' = remove_connection(active_connections, c)
    /\ ACTIVE_CONNECTIONS' = gauge_after_remove(active_connections, c, ACTIVE_CONNECTIONS)
    /\ UNCHANGED <<broadcast, simulation_active, loops>>

\* `if not simulator.simulation_active: asyncio.create_task(...)`, of the /ws
\* handler and of POST /simulate/start alike: a new task, not yet run.
start_request ==
    IF ~simulation_active /\ \E t \in Tasks : loops[t] = "none"
    THEN LET t == CHOOSE t \in Tasks : loops[t] = "none"
         IN loops' = [loops EXCEPT ![t] = "created"]
    ELSE loops' = loops

\* The handler reads a control frame: start_simulation, stop_simulation,
\* another action (ignored), or text json.loads rejects, whose
\* JSONDecodeError ends the handler, the connection staying in the list.
websocket_receive(c, frame) ==
    /\ ws[c] = "open"
    /\ frame = "start_simulation" => \/ simulation_active
                                     \/ \E t \in Tasks : loops[t] = "none"
    /\ ws' = [ws EXCEPT ![c] = IF frame = "not-json" THEN "crashed" ELSE "open"]
    /\ IF frame = "start_simulation"
       THEN start_request /\ simulation_active' = simulation_active
       ELSE /\ loops' = loops
            /\ simulation_active' = IF frame = "stop_simulation"
                                    THEN FALSE ELSE simulation_active
    /\ UNCHANGED <<active_connections, ACTIVE_CONNECTIONS, broadcast>>

\* POST /simulate/start
start_simulation ==
    /\ simulation_active \/ \E t \in Tasks : loops[t] = "none"
    /\ start_request
    /\ UNCHANGED <<active_connections, ACTIVE_CONNECTIONS, ws, broadcast,
                   simulation_active>>

\* POST /simulate/stop
stop_simulation ==
    /\ simulation_active' = FALSE
    /\ UNCHANGED <<active_connections, ACTIVE_CONNECTIONS, ws, broadcast, loops>>

\* A task of simulate_chat_stream runs for the first time: it sets
\* simulation_active and enters the loop.
simulate_chat_stream_begin(t) ==
    /\ loops[t] = "created"
    /\ simulation_active' = TRUE
    /\ loops' = [loops EXCEPT ![t] = "generating"]
    /\ UNCHANGED <<active_connections, ACTIVE_CONNECTIONS, ws, broadcast>>

\* One iteration: a message is generated, processed and broadcast, and the
\* task goes to sleep for message_interval.
simulate_chat_stream_iterate(t) ==
    /\ loops[t] = "generating"
    /\ loops' = [loops EXCEPT ![t] = "sleeping"]
    /\ UNCHANGED <<active_connections, ACTIVE_CONNECTIONS, ws, broadcast,
                   simulation_active>>

\* The sleep ends and `while self.simulation_active` is tested again.
simulate_chat_stream_wake(t) ==
    /\ loops[t] = "sleeping"
    /\ loops' = [loops EXCEPT ![t] = IF simulation_active THEN "generating" ELSE "ended"]
    /\ UNCHANGED <<active_connections, ACTIVE_CONNECTIONS, ws, broadcast,
                   simulation_active>>

\* broadcast_message is called: it returns at once on an empty list, else
\* takes the first connection and awaits its send_json.  snapshot keeps the
\* list at the call, for the properties only.
broadcast_message(b) ==
    /\ broadcast[b].pc = "idle"
    /\ broadcast' = [broadcast EXCEPT ![b] =
           IF active_connections = <<>>
           THEN [IdleBroadcast EXCEPT !.pc = "done"]
           ELSE [IdleBroadcast EXCEPT
                    !.pc = "send_json", !.consumed = 1,
                    !.connection = iterator_next(0, active_connections),
                    !.snapshot = active_connections]]
    /\ UNCHANGED <<active_connections, ACTIVE_CONNECTIONS, ws, simulation_active, loops>>

\* The send_json awaited comes to an end, well or with an exception; the
\* loop takes its next connection or, at the end of the list, removes the
\* connections whose send failed and returns.
broadcast_send_json(b) ==
    /\ broadcast[b].pc = "send_json"
    /\ LET c == broadcast[b].connection
           ok == send_json_ok(ws[c])
           sent == IF ok THEN Append(broadcast[b].sent, c) ELSE broadcast[b].sent
           disconnected == IF ok THEN broadcast[b].disconnected
                           ELSE Append(broadcast[b].disconnected, c)
       IN IF iterator_has_next(broadcast[b].consumed, active_connections)
          THEN /\ broadcast' = [broadcast EXCEPT ![b] =
                      [@ EXCEPT !.consumed = @ + 1,
                                !.connection = iterator_next(broadcast[b].consumed,
                                                   active_connections),
                                !.sent = sent, !.disconnected = disconnected]]
               /\ UNCHANGED <<active_connections, ACTIVE_CONNECTIONS>>
          ELSE /\ broadcast' = [broadcast EXCEPT ![b] =
                      [@ EXCEPT !.pc = "done", !.connection = "none",
                                !.sent = sent, !.disconnected = disconnected]]
               /\ active_connections' = remove_all(active_connections, disconnected)
               /\ ACTIVE_CONNECTIONS' =
                      IF remove_all(active_connections, disconnected) = active_connections
                      THEN ACTIVE_CONNECTIONS
                      ELSE Len(remove_all(active_connections, disconnected))
    /\ UNCHANGED <<ws, simulation_active, loops>>

WsNext ==
    \/ \E c \in Connections : websocket_endpoint(c)
    \/ \E c \in Connections : client_close(c)
    \/ \E c \in Connections : websocket_disconnect(c)
    \/ \E c \in Connections, frame \in Frames : websocket_receive(c, frame)
    \/ start_simulation
    \/ stop_simulation
    \/ \E t \in Tasks : simulate_chat_stream_begin(t)
    \/ \E t \in Tasks : simulate_chat_stream_iterate(t)
    \/ \E t \in Tasks : simulate_chat_stream_wake(t)
    \/ \E b \in Broadcasts : broadcast_message(b)
    \/ \E b \in Broadcasts : broadcast_send_json(b)

(***************************************************************************)
(* Decision Handler                                                        *)
(***************************************************************************)
\* The /process calls of one behaviour.
ProcessIds == {"p1", "p2"}

Severities == {"low", "medium", "high", "critical"}

\* The confidences a decision may carry, in hundredths.
Confidences == {20, 35, 50, 85, 95}

\* The ModerationDecision bodies posted to /process: for one user Toxic
\* decisions of every confidence and severity, for the other a few of them,
\* and decisions with another label, a confidence of zero or a severity the
\* handler does not know.
Decisions ==
    [user_id : {"u1"}, decision : {"Toxic"}, confidence : Confidences,
     severity : Severities]
    \cup [user_id : {"u2"}, decision : {"Toxic"}, confidence : {35, 85},
          severity : {"medium"}]
    \cup [user_id : {"u1"}, decision : {"Non-Toxic"}, confidence : {85},
          severity : {"medium", "critical"}]
    \cup { [user_id |-> "u1", decision |-> "Error", confidence |-> 0,
            severity |-> "low"],
           [user_id |-> "u2", decision |-> "Non-Toxic", confidence |-> 50,
            severity |-> "extreme"],
           [user_id |-> "u2", decision |-> "Toxic", confidence |-> 95,
            severity |-> "extreme"] }

\* DecisionHandler.action_thresholds, in hundredths.
action_thresholds == [warn |-> 30, timeout |-> 60, kick |-> 80, ban |-> 90]

\* DecisionHandler.severity_actions
severity_actions ==
    [low |-> {"warn"}, medium |-> {"warn", "timeout"},
     high |-> {"timeout", "kick"}, critical |-> {"kick", "ban"}]

\* The order in which _get_base_action tries the actions.
action_order == <<"ban", "kick", "timeout", "warn">>

\* _get_base_action trying the mildest action first.
_get_base_action_MildestFirst(confidence, severity) ==
    LET available == IF severity \in DOMAIN severity_actions
                     THEN severity_actions[severity] ELSE {"warn"}
        met == {i \in 1..Len(action_order) :
                   /\ action_order[i] \in available
                   /\ confidence >= action_thresholds[action_order[i]]}
    IN IF met = {} THEN "warn"
       ELSE action_order[CHOOSE i \in met : \A j \in met : i >= j]

\* DecisionHandler._get_base_action: the first action of the order that the
\* severity allows and whose threshold the confidence meets, else warn.
_get_base_action(confidence, severity) ==
    LET available == IF severity \in DOMAIN severity_actions
                     THEN severity_actions[severity] ELSE {"warn"}
        met == {i \in 1..Len(action_order) :
                   /\ action_order[i] \in available
                   /\ confidence >= action_thresholds[action_order[i]]}
    IN IF met = {} THEN "warn"
       ELSE action_order[CHOOSE i \in met : \A j \in met : i <= j]

\* _escalate_action going up two steps.
_escalate_action_TwoSteps(base_action) ==
    [warn |-> "kick", timeout |-> "ban", kick |-> "ban", ban |-> "ban"][base_action]

\* DecisionHandler._escalate_action (escalation_map)
_escalate_action(base_action) ==
    [warn |-> "timeout", timeout |-> "kick", kick |-> "ban", ban |-> "ban"][base_action]

\* The violation_count above which determine_action escalates.
escalation_count == 5

\* DecisionHandler.determine_action, after the history is loaded.
determine_action(user_history, decision) ==
    LET base_action == _get_base_action(decision.confidence, decision.severity)
    IN IF user_history # NoValue /\ user_history.violation_count > escalation_count
       THEN _escalate_action(base_action)
       ELSE base_action

\* DecisionHandler.get_user_history: the row of the user, or None.
get_user_history(table, user_id) == table[user_id]

\* What running the _execute_* method of an action comes to: it ends well
\* (no webhook configured, or the notification delivered), the POST to the
\* webhook fails, or the method itself raises.
Executions == {"ok", "notification_failed", "raised"}

\* execute_action answering "none" when the method raises.
execute_action_RaisedIsNone(action, execution) ==
    IF action \notin {"warn", "timeout", "kick", "ban"} \/ execution = "raised"
    THEN [action_taken |-> "none", success |-> FALSE, details |-> "Action failed"]
    ELSE [action_taken |-> action, success |-> TRUE, details |-> "done"]

\* execute_action reporting a failed notification as a failed action.
execute_action_NotifierFatal(action, execution) ==
    IF action \notin {"warn", "timeout", "kick", "ban"}
    THEN [action_taken |-> "none", success |-> TRUE, details |-> "No action required"]
    ELSE IF execution \in {"raised", "notification_failed"}
    THEN [action_taken |-> action, success |-> FALSE, details |-> "Action failed"]
    ELSE [action_taken |-> action, success |-> TRUE, details |-> "done"]

\* DecisionHandler.execute_action: the _execute_* method of the action logs,
\* notifies (_send_notification swallows every failure) and answers success;
\* an exception raised by the method gives success false with the cause; an
\* action that is none of the four gives "none".
execute_action(action, execution) ==
    IF action \notin {"warn", "timeout", "kick", "ban"}
    THEN [action_taken |-> "none", success |-> TRUE, details |-> "No action required"]
    ELSE IF execution = "raised"
    THEN [action_taken |-> action, success |-> FALSE, details |-> "Action failed"]
    ELSE [action_taken |-> action, success |-> TRUE, details |-> "done"]

\* The INSERT of record_decision keyed by user, replacing the user's row.
insert_moderation_decision_PerUser(table, row) ==
    IF \E i \in 1..Len(table) : table[i].user_id = row.user_id
    THEN [i \in 1..Len(table) |->
             IF table[i].user_id = row.user_id THEN row ELSE table[i]]
    ELSE Append(table, row)

\* INSERT INTO moderation_decisions: one more row, the others untouched.
insert_moderation_decision(table, row) == Append(table, row)

\* The columns of user_violations that create_tables gives a unique index:
\* the primary key only; idx_user_violations_user_id is a plain index.
user_violations_unique == {"id"}

\* The INSERT ... ON CONFLICT (user_id) DO UPDATE of update_user_history.
\* ON CONFLICT needs a unique index on its columns: without one PostgreSQL
\* rejects the statement and the table is left as it was.
upsert_user_violation(table, user_id, confidence) ==
    IF "user_id" \notin user_violations_unique
    THEN Raised("InvalidColumnReferenceError")
    ELSE Returned(
           IF table[user_id] = NoValue
           THEN [table EXCEPT ![user_id] =
                    [violation_count |-> 1, total_score |-> confidence]]
           ELSE [table EXCEPT ![user_id] =
                    [violation_count |-> @.violation_count + 1,
                     total_score |-> @.total_score + confidence]])

\* `if decision.confidence > 0.5`: the decision counts as a violation.
counts_as_violation(decision) == decision.confidence > 50

\* The user_violations tables the service may find at start-up: per user no
\* row, or a row at or just above the escalation count.
StoredViolations ==
    { table \in [Users -> {NoValue} \cup
                          {[violation_count |-> c, total_score |-> c * 60] :
                               c \in {escalation_count, escalation_count + 1}}] :
          table["u2"] = NoValue \/ table["u2"].violation_count = escalation_count }

NoViolations == [u \in Users |-> NoValue]

IdleProcess ==
    [pc |-> "idle", decision |-> NoValue, user_history |-> NoValue,
     base_action |-> "none", action |-> "none", execution |-> "none",
     response |-> NoResponse, background_error |-> "none"]

dhVars == <<user_violations, moderation_decisions, process, violations_at_start>>

\* POST /process: determine_action loads the history and chooses the action,
\* execute_action carries it out, the two background tasks are queued and the
\* response is returned.  base_action and execution are kept for the
\* properties only.
process_decision(p, decision, execution) ==
    /\ process[p].pc = "idle"
    /\ LET user_history == get_user_history(user_violations, decision.user_id)
           action == determine_action(user_history, decision)
       IN process' = [process EXCEPT ![p] =
              [pc |-> "record_decision", decision |-> decision,
               user_history |-> user_history,
               base_action |-> _get_base_action(decision.confidence, decision.severity),
               action |-> action, execution |-> execution,
               response |-> [status |-> 200,
                             body |-> execute_action(action, execution)],
               background_error |-> "none"]]
    /\ UNCHANGED <<user_violations, moderation_decisions, violations_at_start>>

\* The first background task of a call: record_decision inserts the row.
\* When the INSERT fails (the database is away) the task raises and the
\* tasks queued after it are not run.
record_decision(p, inserted) ==
    /\ process[p].pc = "record_decision"
    /\ IF inserted
       THEN /\ moderation_decisions' =
                  insert_moderation_decision(moderation_decisions,
                      [request |-> p, user_id |-> process[p].decision.user_id,
                       decision |-> process[p].decision.decision,
                       confidence |-> process[p].decision.confidence,
                       severity |-> process[p].decision.severity,
                       action_taken |-> process[p].action])
            /\ process' = [process EXCEPT ![p].pc =
                               IF counts_as_violation(process[p].decision)
                               THEN "update_user_history" ELSE "done"]
       ELSE /\ moderation_decisions' = moderation_decisions
            /\ process' = [process EXCEPT ![p].pc = "done",
                                          ![p].background_error = "PostgresError"]
    /\ UNCHANGED <<user_violations, violations_at_start>>

\* The second background task, queued for a violation only.
update_user_history(p) ==
    /\ process[p].pc = "update_user_history"
    /\ LET upsert == upsert_user_violation(user_violations,
                                           process[p].decision.user_id,
                                           process[p].decision.confidence)
       IN IF upsert.raised
          THEN /\ user_violations' = user_violations
               /\ process' = [process EXCEPT ![p].pc = "done",
                                             ![p].background_error = upsert.error]
          ELSE /\ user_violations' = upsert.response
               /\ process' = [process EXCEPT ![p].pc = "done"]
    /\ UNCHANGED <<moderation_decisions, violations_at_start>>

DecisionNext ==
    \/ \E p \in ProcessIds, decision \in Decisions, execution \in Executions :
           process_decision(p, decision, execution)
    \/ \E p \in ProcessIds, inserted \in BOOLEAN : record_decision(p, inserted)
    \/ \E p \in ProcessIds : update_user_history(p)

(***************************************************************************)
(* Specifications                                                          *)
(***************************************************************************)
vars == <<filterVars, mcpVars, ingressVars, dhVars, wsVars>>

\* The three services after construction.  The template catalogue and
\* max_retries are configuration, read once at start-up: a specification
\* names the configurations it starts from, and the user_violations tables
\* the Decision Handler finds in its database.
Init(catalogues, retries, stored) ==
    /\ enabled_filters = [n \in FilterNames |-> TRUE]
    /\ user_message_counts = << >>
    /\ now = 0
    /\ filter_request = NoRequest
    /\ filter_response = NoResponse
    /\ submissions = <<>>
    /\ templates \in catalogues
    /\ max_retries \in retries
    /\ mcp_pc = "idle"
    /\ mcp_request = NoRequest
    /\ mcp_template = NoRequest
    /\ attempt = 0
    /\ llm_posts = <<>>
    /\ llm_events = <<>>
    /\ mcp_response = NoResponse
    /\ pipeline = [r \in Requests |-> IdlePipeline]
    /\ mcp_calls = [r \in Requests |-> 0]
    /\ broadcast_log = <<>>
    /\ user_violations \in stored
    /\ violations_at_start = user_violations
    /\ moderation_decisions = <<>>
    /\ process = [p \in ProcessIds |-> IdleProcess]
    /\ active_connections = <<>>
    /\ ACTIVE_CONNECTIONS = 0
    /\ ws = [c \in Connections |-> "new"]
    /\ broadcast = [b \in Broadcasts |-> IdleBroadcast]
    /\ simulation_active = FALSE
    /\ loops = [t \in Tasks |-> "none"]

\* The Filter service alone.
FilterSpec ==
    /\ Init({DefaultTemplates}, {MaxRetries}, {NoViolations})
    /\ [][FilterNext /\ UNCHANGED <<mcpVars, ingressVars, dhVars, wsVars>>]_vars

\* The MCP server alone.
MCPSpec ==
    /\ Init({DefaultTemplates, LoadedTemplates}, 0..MaxRetries, {NoViolations})
    /\ [][MCPNext /\ UNCHANGED <<filterVars, ingressVars, dhVars, wsVars>>]_vars

\* The MCP server with every attempt and every sleep coming to an end (the
\* per-attempt deadline of the HTTP client, the finite sleep).
MCPFairSpec ==
    /\ MCPSpec
    /\ WF_vars(/\ \/ \E content \in LlmContents : llm_attempt_succeeds(content)
                  \/ \E failure \in LlmFailures : llm_attempt_fails(failure)
               /\ UNCHANGED <<filterVars, ingressVars, dhVars, wsVars>>)
    /\ WF_vars(backoff_sleep /\ UNCHANGED <<filterVars, ingressVars, dhVars, wsVars>>)

\* The ingress alone, the Filter and the MCP seen through their responses.
IngressSpec ==
    /\ Init({DefaultTemplates}, {MaxRetries}, {NoViolations})
    /\ [][IngressNext /\ UNCHANGED <<filterVars, mcpVars, dhVars, wsVars>>]_vars

\* The Decision Handler alone, on a database with or without stored rows.
DecisionSpec ==
    /\ Init({DefaultTemplates}, {MaxRetries}, StoredViolations)
    /\ [][DecisionNext /\ UNCHANGED <<filterVars, mcpVars, ingressVars, wsVars>>]_vars

\* The WebSocket side of the ingress alone: connections, broadcasts and the
\* generator loop.
WsSpec ==
    /\ Init({DefaultTemplates}, {MaxRetries}, {NoViolations})
    /\ [][WsNext /\ UNCHANGED <<filterVars, mcpVars, ingressVars, dhVars>>]_vars

(***************************************************************************)
(* Properties of the Filter service.                                       *)
(***************************************************************************)
\* The last request was a /filter call (its entry is the last of submissions).
FilterCalled == filter_request.path = "/filter"

LastCall == Len(submissions)

\* The submissions of the user of call i, up to call i, less than a window
\* older than it; `counted` selects the submissions that count.
InWindow(i, counted(_)) ==
    { j \in 1..i : /\ submissions[j].user_id = submissions[i].user_id
                   /\ submissions[i].time - submissions[j].time < rate_limit_window
                   /\ counted(submissions[j]) }

AnyCall(entry) == TRUE
Accepted(entry) == ~entry.rate_limited
Limiting(entry) == entry.rate_limit
AcceptedLimiting(entry) == entry.rate_limit /\ ~entry.rate_limited

\* Call i overflows the window of the rate limiter: the limiter is enabled and
\* more than max_messages_per_window of the submissions it saw lie in the window.
Overflow(i) ==
    /\ submissions[i].rate_limit
    /\ Cardinality(InWindow(i, Limiting)) > max_messages_per_window

\* The message contains an email, a phone number, a 16-digit card or an SSN.
ContainsPii(message) ==
    \E i \in 1..Len(message) :
        \/ TokenShape(message[i]) \in {"email", "phone", "ssn", "card"}
        \/ CardAt(message, i)

RateLimitedVerdict(response) ==
    /\ response.status = 200
    /\ response.body.should_process = FALSE
    /\ response.body.filter_decision = "rate_limited"
    /\ response.body.confidence = 100
    /\ response.body.filter_type = "rate_limit"

\* C2 (as claimed): for every user, the calls not answered rate_limited inside
\* any window of rate_limit_window seconds number at most
\* max_messages_per_window.
C2_AcceptedPerWindowAnyCalls ==
    \A i \in 1..Len(submissions) :
        Cardinality(InWindow(i, Accepted)) <= max_messages_per_window

\* C2 (amended): for every user, the calls handled while the rate_limit
\* sub-filter is enabled and not answered rate_limited inside any window of
\* rate_limit_window seconds number at most max_messages_per_window.
C2_AcceptedPerWindowWhileEnabled ==
    \A i \in 1..Len(submissions) :
        Cardinality(InWindow(i, AcceptedLimiting)) <= max_messages_per_window

\* C2 witness: max_messages_per_window calls of a user were accepted in a
\* window and a further call in the same window was answered rate_limited.
C2_Witness ==
    \E i \in 1..Len(submissions) :
        /\ submissions[i].rate_limited
        /\ Cardinality(InWindow(i, AcceptedLimiting)) = max_messages_per_window

\* C3 (as claimed): every /filter call whose message contains PII is answered
\* block_pii with should_process false and confidence 0.95, in any filter state.
C3_PiiAlwaysBlocked ==
    (FilterCalled /\ ContainsPii(filter_request.message))
        => /\ filter_response.status = 200
           /\ filter_response.body.filter_decision = "block_pii"
           /\ filter_response.body.should_process = FALSE
           /\ filter_response.body.confidence = 95

\* C3 (amended): a /filter call whose message contains PII, handled with the
\* keywords sub-filter enabled and not overflowing the rate-limit window, is
\* answered block_pii with should_process false, confidence 0.95 and
\* filter_type keyword.
C3_PiiBlockedUnlessLimited ==
    (/\ FilterCalled
     /\ ContainsPii(filter_request.message)
     /\ enabled_filters["keywords"]
     /\ ~Overflow(LastCall))
        => /\ filter_response.status = 200
           /\ filter_response.body.filter_decision = "block_pii"
           /\ filter_response.body.should_process = FALSE
           /\ filter_response.body.confidence = 95
           /\ filter_response.body.filter_type = "keyword"

\* C3 witness: a message with both a banned word and PII was blocked as PII
\* while the user had earlier submissions in the window.
C3_Witness ==
    /\ FilterCalled
    /\ filter_request.message = <<"idiot", "555-123-4567">>
    /\ Cardinality(InWindow(LastCall, Limiting)) = max_messages_per_window
    /\ filter_response.status = 200
    /\ filter_response.body.filter_decision = "block_pii"

\* C4 (as claimed): a submission that is the user's (N+1)-th or later within
\* the window is answered with the rate_limited verdict whatever its content,
\* and a submission that is among the first N in its window is not.
C4_OverflowAlwaysLimited ==
    FilterCalled =>
        IF Cardinality(InWindow(LastCall, AnyCall)) > max_messages_per_window
        THEN RateLimitedVerdict(filter_response)
        ELSE ~(filter_response.status = 200
               /\ filter_response.body.filter_decision = "rate_limited")

\* C4 (amended): with the rate_limit sub-filter enabled, a submission that
\* overflows the window of the submissions the rate limiter saw is answered
\* with the rate_limited verdict whatever its content and whatever the other
\* toggles; any other submission is not answered rate_limited.
C4_OverflowLimitedWhileEnabled ==
    FilterCalled =>
        IF Overflow(LastCall)
        THEN RateLimitedVerdict(filter_response)
        ELSE ~(filter_response.status = 200
               /\ filter_response.body.filter_decision = "rate_limited")

\* C4 witness: a message containing PII overflowed the window and was
\* answered rate_limited, not block_pii.
C4_Witness ==
    /\ FilterCalled
    /\ ContainsPii(filter_request.message)
    /\ Overflow(LastCall)
    /\ RateLimitedVerdict(filter_response)

\* The hits of the toxic/banned and spam scans on a message.
ToxicOrBannedHit(message) ==
    check_banned_words(message) # <<>> \/ check_patterns(message, toxic_patterns) # <<>>
SpamHit(message) == check_patterns(message, spam_patterns) # <<>>
ProfanityHit(message) == contains_profanity(message) # <<>>

Verdict(response, should_process, decision, confidence) ==
    /\ response.status = 200
    /\ response.body.should_process = should_process
    /\ response.body.filter_decision = decision
    /\ response.body.confidence = confidence

ProcessingRaised ==
    /\ FilterCalled
    /\ ~enabled_filters["keywords"]
    /\ ~Overflow(LastCall)

C7_VerdictUnderAnyToggles ==
    /\ FilterCalled => filter_response.status = 200
    /\ (filter_request.path = "/config/toggle"
        /\ filter_request.filter_name \notin FilterNames)
           => filter_response.status = 404

\* The /filter calls of user u that reached the rate limiter (the rate_limit
\* sub-filter was enabled), rejected ones included.
SeenBy(u) ==
    {j \in 1..Len(submissions) :
        submissions[j].user_id = u /\ submissions[j].rate_limit}

\* The time of the last of them.
LastSeen(u) == submissions[CHOOSE j \in SeenBy(u) : \A k \in SeenBy(u) : k <= j].time

\* The times of those less than a window older than the last one, in order.
RecentSeen(u) ==
    LET Kept(s) == /\ s.user_id = u
                   /\ s.rate_limit
                   /\ LastSeen(u) - s.time < rate_limit_window
        kept == SelectSeq(submissions, Kept)
    IN [k \in 1..Len(kept) |-> kept[k].time]

ModerateCalled == mcp_request.path = "/moderate"

\* The message is longer than 2000 characters or its lower-cased text
\* contains a blacklisted injection pattern.
InvalidInput(message) ==
    \/ MessageLen(message) > 2000
    \/ \E i \in 1..Len(injection_patterns) :
           Contains([k \in 1..Len(message) |-> Lower(message[k])], injection_patterns[i])

\* C8: for a Moderate request with an oversize message or an injection
\* pattern, no request is ever sent to the LLM backend and no template is
\* resolved or rendered: the call ends at validation with an error.
C8_NoBackendCallOnInvalidInput ==
    (ModerateCalled /\ InvalidInput(mcp_request.message))
        => /\ llm_posts = <<>>
           /\ llm_events = <<>>
           /\ mcp_template = NoRequest
           /\ mcp_pc = "done"
           /\ mcp_response.status # 200

\* C8 witness: an upper-case injection pattern and a 2001-character message
\* were each rejected with no backend call; here the request in hand is one.
C8_Witness ==
    /\ ModerateCalled
    /\ mcp_request.message \in {<<"SYSTEM:", "hello">>, <<"a*1994", "stupid">>}
    /\ mcp_pc = "done"
    /\ llm_posts = <<>>

\* C9 (as claimed): a Moderate request failing validation is answered with
\* status 400.
C9_InvalidInputIs400 ==
    (ModerateCalled /\ InvalidInput(mcp_request.message) /\ mcp_pc = "done")
        => mcp_response.status = 400

\* The attempts among the first n events, and the failed ones.
Attempts(n) == {i \in 1..n : llm_events[i].kind = "attempt"}
FailedAttempts(n) == {i \in Attempts(n) : ~llm_events[i].ok}

\* The shape of the events of one call of generate_response.
C10_RetryDiscipline ==
    /\ Cardinality(Attempts(Len(llm_events))) <= max_retries
    /\ Len(llm_posts) = Cardinality(Attempts(Len(llm_events)))
    /\ \A i \in 1..Len(llm_events) :
          LET e == llm_events[i]
              k == Cardinality(Attempts(i))
          IN /\ (e.kind = "attempt" /\ e.ok) => i = Len(llm_events)
             /\ (e.kind = "attempt" /\ ~e.ok /\ i < Len(llm_events))
                   => /\ k < max_retries
                      /\ llm_events[i + 1].kind = "sleep"
                      /\ llm_events[i + 1].seconds = Pow2(k - 1)
             /\ (e.kind = "attempt" /\ ~e.ok /\ k = max_retries)
                   => i = Len(llm_events) /\ mcp_pc = "done"
             /\ e.kind = "sleep"
                   => /\ i > 1 /\ llm_events[i - 1].kind = "attempt"
                      /\ ~llm_events[i - 1].ok
                      /\ i < Len(llm_events) => llm_events[i + 1].kind = "attempt"
    /\ (ModerateCalled /\ mcp_pc = "done" /\ ~InvalidInput(mcp_request.message))
          => \/ /\ llm_events # <<>>
                /\ llm_events[Len(llm_events)].kind = "attempt"
                /\ llm_events[Len(llm_events)].ok
             \/ /\ Cardinality(FailedAttempts(Len(llm_events))) = max_retries
                /\ Cardinality(Attempts(Len(llm_events))) = max_retries
                /\ mcp_response.status # 200

\* C10: within one Moderate call the LLM client makes at most max_retries
\* attempts, none after a successful one, sleeps 2^(k-1) seconds after failed
\* attempt k unless it was the last, and the call comes to an end with the
\* content of the successful attempt or with a failure.
C10_RetriesBackoffAndTermination ==
    /\ []C10_RetryDiscipline
    /\ (mcp_pc \in {"post", "sleep"}) ~> (mcp_pc = "done")

\* C10 witness: two failed attempts, waits of 1 and 2 seconds, then a
\* successful third attempt ending the call.
C10_Witness ==
    /\ mcp_pc = "done"
    /\ Len(llm_events) = 5
    /\ llm_events[2] = [kind |-> "sleep", seconds |-> 1]
    /\ llm_events[4] = [kind |-> "sleep", seconds |-> 2]
    /\ llm_events[5].kind = "attempt" /\ llm_events[5].ok

\* The call in hand has ended after a successful attempt, whose content it is.
AnsweredContent ==
    /\ ModerateCalled
    /\ mcp_pc = "done"
    /\ llm_events # <<>>
    /\ llm_events[Len(llm_events)].kind = "attempt"
    /\ llm_events[Len(llm_events)].ok

LastContent == llm_events[Len(llm_events)].content

\* The call in hand has ended after max_retries >= 1 attempts that all failed.
AllAttemptsFailed ==
    /\ ModerateCalled
    /\ mcp_pc = "done"
    /\ max_retries >= 1
    /\ Cardinality(FailedAttempts(Len(llm_events))) = max_retries

\* C11 (as claimed): when every LLM attempt of a Moderate call has failed,
\* /moderate answers with status 503 and nothing else, carrying decision
\* Error, confidence 0.0 and the cause as reasoning.
C11_BackendFailureIs503 ==
    AllAttemptsFailed
        => /\ mcp_response.status = 503
           /\ mcp_response.body.decision = "Error"
           /\ mcp_response.body.confidence = 0
           /\ mcp_response.body.reasoning = llm_events[Len(llm_events)].failure

\* C13 (as claimed): whatever content a successful LLM response carries,
\* Moderate answers with a verdict and never fails the request.
C13_EveryContentGivesVerdict ==
    AnsweredContent => mcp_response.status = 200

\* C14 (as claimed): every verdict Moderate returns has its decision among
\* Toxic, Non-Toxic, Error and its confidence within [0, 1], whatever the
\* LLM put in its JSON.
C14_VerdictInRange ==
    (ModerateCalled /\ mcp_pc = "done" /\ mcp_response.status = 200)
        => /\ mcp_response.body.decision \in {"Toxic", "Non-Toxic", "Error"}
           /\ mcp_response.body.confidence \in 0..100

\* The stages of the cascade on a content, in order: the whole content, then
\* the four extraction patterns.
Stages(content) == <<content.whole>> \o content.extracted

\* The stages of a content that yield a non-empty JSON object.
Yielding(content) ==
    {i \in 1..Len(Stages(content)) :
        /\ Stages(content)[i].type = "object"
        /\ DOMAIN Stages(content)[i].fields # {}}

\* The verdict in hand has the decision, confidence and reasoning of the
\* object, with the defaults for the fields it lacks.
VerdictFrom(object) ==
    /\ mcp_response.body.decision = Get(object, "decision", "Non-Toxic")
    /\ mcp_response.body.confidence = Get(object, "confidence", 50)
    /\ mcp_response.body.reasoning = Get(object, "reasoning", "")

\* The verdict in hand is the one of the keyword stage, toxic indicators
\* before safe ones.
VerdictFromKeywords(phrases) ==
    IF phrases \cap toxic_phrases # {}
    THEN mcp_response.body.decision = "Toxic" /\ mcp_response.body.confidence = 70
    ELSE IF phrases \cap safe_phrases # {}
    THEN mcp_response.body.decision = "Non-Toxic" /\ mcp_response.body.confidence = 70
    ELSE /\ mcp_response.body.decision = "Non-Toxic"
         /\ mcp_response.body.confidence = 50
         /\ mcp_response.body.reasoning = "Unable to determine from LLM response"

\* C15 (as claimed): the verdict comes from the first stage, in the order
\* whole content, fenced json block, generic fenced block, brace-delimited
\* object with "decision", that yields a non-empty object; only when no stage
\* yields one does it come from the keyword stage (toxic indicators first), a
\* content that is itself an empty object giving the defaults.
C15_FirstSucceedingStage ==
    (AnsweredContent /\ mcp_response.status = 200)
        => LET yielding == Yielding(LastContent)
               first == CHOOSE i \in yielding : \A j \in yielding : i <= j
           IN IF yielding # {}
              THEN VerdictFrom(Stages(LastContent)[first])
              ELSE IF LastContent.whole.type = "object"
              THEN VerdictFrom(LastContent.whole)
              ELSE VerdictFromKeywords(LastContent.phrases)

\* C16: for every Moderate call that returns a verdict, each prompt posted
\* to the LLM is rendered from the requested template when the catalogue has
\* that name and from the default template only when it has not, and the
\* verdict's template_version is the version of that same template.
C16_TemplateRoundTrip ==
    (ModerateCalled /\ mcp_pc = "done" /\ mcp_response.status = 200)
        => LET name == mcp_request.template_name
               used == IF name \in DOMAIN templates
                       THEN templates[name]
                       ELSE templates["moderation_prompt"]
           IN /\ llm_posts # <<>>
              /\ \A i \in 1..Len(llm_posts) : Head(llm_posts[i]) = Head(used.prompt)
              /\ mcp_response.body.template_version = used.version

\* C16 witness: a verdict for a request naming strict_prompt, a template of
\* the loaded catalogue, whose prompt was posted and whose version 2.0 is
\* echoed.
C16_Witness ==
    /\ ModerateCalled
    /\ mcp_pc = "done"
    /\ mcp_response.status = 200
    /\ mcp_request.template_name = "strict_prompt"
    /\ "strict_prompt" \in DOMAIN templates
    /\ Head(llm_posts[1]) = "Strict:"
    /\ mcp_response.body.template_version = "2.0"

(***************************************************************************)
(* Properties of the ingress pipeline.                                     *)
(***************************************************************************)
\* The filter verdict of request r is in and says should_process false.
FilterStopped(r) ==
    /\ pipeline[r].filter_result # NoValue
    /\ "should_process" \in DOMAIN pipeline[r].filter_result
    /\ pipeline[r].filter_result.should_process = FALSE

\* C1: for every message run through process_message, if the filter verdict
\* has should_process false then the MCP /moderate endpoint is never called
\* for it and moderation_result stays empty, in the returned record too.
C1_FilteredNeverReachesMcp ==
    \A r \in Requests :
        FilterStopped(r)
            => /\ mcp_calls[r] = 0
               /\ pipeline[r].pc \in {"returned", "done"}
               /\ pipeline[r].moderation_result = NoValue
               /\ pipeline[r].result.moderation_result = NoValue

\* C1 witness: a message blocked as PII went through the whole pipeline while
\* another message was moderated by the MCP.
C1_Witness ==
    \E r, q \in Requests :
        /\ pipeline[r].pc = "done"
        /\ pipeline[r].filter_result.filter_decision = "block_pii"
        /\ FilterStopped(r)
        /\ mcp_calls[r] = 0
        /\ mcp_calls[q] = 1

\* The POST of request r to the Filter has come to an end without a 2xx
\* response (an error status, a timeout, a transport error).
FilterCallFailed(r) ==
    /\ pipeline[r].filter_outcome # NoValue
    /\ pipeline[r].filter_outcome.status # 200

\* The POST of request r to the MCP has come to an end without a 2xx response.
McpCallFailed(r) ==
    /\ pipeline[r].mcp_outcome # NoValue
    /\ pipeline[r].mcp_outcome.status # 200

\* The entry points that hand the record to broadcast_message.
Broadcasting == {"send_user_message", "simulate_chat_stream"}

Handled == {p \in ProcessIds : process[p].pc # "idle"}

\* Those whose decision has one of the four severities of section 4.3.
HandledKnown == {p \in Handled : process[p].decision.severity \in Severities}

\* The order warn < timeout < kick < ban.
Rank(action) == CASE action = "warn" -> 1 [] action = "timeout" -> 2
                  [] action = "kick" -> 3 [] action = "ban" -> 4

\* The actions the severity allows (section 4.3 of the specification).
Allowed(severity) ==
    CASE severity = "low" -> {"warn"}
      [] severity = "medium" -> {"warn", "timeout"}
      [] severity = "high" -> {"timeout", "kick"}
      [] severity = "critical" -> {"kick", "ban"}

\* The confidence threshold of an action, in hundredths.
Threshold(action) == CASE action = "warn" -> 30 [] action = "timeout" -> 60
                       [] action = "kick" -> 80 [] action = "ban" -> 90

\* The actions the severity allows and whose threshold the confidence meets.
Qualifying(decision) ==
    {a \in Allowed(decision.severity) : decision.confidence >= Threshold(a)}

\* Escalation fires for the call: the history loaded has a count above 5.
EscalationFires(p) ==
    /\ process[p].user_history # NoValue
    /\ process[p].user_history.violation_count > 5

C18_ActionAllowedBySeverity ==
    /\ \A p \in HandledKnown :
          ~EscalationFires(p)
             => /\ process[p].action \in Allowed(process[p].decision.severity)
                /\ process[p].response.body.action_taken
                       \in Allowed(process[p].decision.severity)
    /\ \A i \in 1..Len(moderation_decisions) :
          (moderation_decisions[i].severity \in Severities
           /\ ~EscalationFires(moderation_decisions[i].request))
             => moderation_decisions[i].action_taken
                   \in Allowed(moderation_decisions[i].severity)

\* C19: the action chosen is the base action moved up exactly one step
\* (ban staying ban) when the violation_count loaded at the start of the call
\* is above 5, and the base action itself when it is 5 or less or the user
\* has no row; it is never below the base action.
C19_EscalationOneStepIffAboveFive ==
    \A p \in Handled :
        LET base == Rank(process[p].base_action)
        IN /\ Rank(process[p].action) =
                 IF EscalationFires(p)
                 THEN (IF base = 4 THEN 4 ELSE base + 1)
                 ELSE base
           /\ Rank(process[p].action) >= base

\* C19 witness: with a count of 6 loaded, confidence 0.35 and severity medium
\* gave timeout (base warn); with a count of 5 loaded the same decision for
\* another user gave warn.
C19_Witness ==
    \E p, q \in Handled :
        /\ process[p].user_history # NoValue
        /\ process[p].user_history.violation_count = 6
        /\ process[p].decision.confidence = 35
        /\ process[p].decision.severity = "medium"
        /\ process[p].base_action = "warn"
        /\ process[p].action = "timeout"
        /\ process[q].user_history # NoValue
        /\ process[q].user_history.violation_count = 5
        /\ process[q].decision.confidence = 35
        /\ process[q].decision.severity = "medium"
        /\ process[q].action = "warn"

\* The count and the score a user_violations table holds for a user.
ViolationCount(table, u) == IF table[u] = NoValue THEN 0 ELSE table[u].violation_count
TotalScore(table, u) == IF table[u] = NoValue THEN 0 ELSE table[u].total_score

\* The calls for user u that are over, background writes included, and
\* carried a confidence above 0.5.
CountedCalls(u) ==
    {p \in ProcessIds : /\ process[p].pc = "done"
                        /\ process[p].decision.user_id = u
                        /\ process[p].decision.confidence > 50}

RECURSIVE SumConfidence(_)
SumConfidence(calls) ==
    IF calls = {} THEN 0
    ELSE LET p == CHOOSE q \in calls : TRUE
         IN process[p].decision.confidence + SumConfidence(calls \ {p})

\* C20 (as claimed): once every call made is over with its background writes,
\* the persisted violation_count of each user has grown by the number of its
\* calls with confidence above 0.5 and total_score by the sum of their
\* confidences, whatever the interleaving; the other calls change nothing.
C20_CounterCountsViolations ==
    (\A p \in ProcessIds : process[p].pc \in {"idle", "done"})
        => \A u \in Users :
              /\ ViolationCount(user_violations, u) =
                     ViolationCount(violations_at_start, u) + Cardinality(CountedCalls(u))
              /\ TotalScore(user_violations, u) =
                     TotalScore(violations_at_start, u) + SumConfidence(CountedCalls(u))

\* C21: in every step of the Decision Handler no user's violation_count goes
\* down, no user_violations row disappears, and moderation_decisions only
\* grows at its end, the rows it had staying as they were.
C21_CountersMonotoneDecisionsAppendOnly ==
    [][/\ \A u \in Users :
             /\ ViolationCount(user_violations', u) >= ViolationCount(user_violations, u)
             /\ user_violations[u] # NoValue => user_violations'[u] # NoValue
       /\ Len(moderation_decisions') >= Len(moderation_decisions)
       /\ \A i \in 1..Len(moderation_decisions) :
             moderation_decisions'[i] = moderation_decisions[i]]_vars

\* C21 witness: two decisions of one user who has a stored row were
\* recorded one after the other, and the violation upserts of both were run.
C21_Witness ==
    /\ Len(moderation_decisions) = 2
    /\ moderation_decisions[1].user_id = moderation_decisions[2].user_id
    /\ user_violations[moderation_decisions[1].user_id] # NoValue
    /\ \A p \in ProcessIds :
          process[p].pc = "done" /\ counts_as_violation(process[p].decision)

\* The decision of call p has been handed to the background tasks: its
\* insert is pending, or done with the chosen action, or was tried and failed.
ScheduledForPersistence(p) ==
    \/ process[p].pc = "record_decision"
    \/ \E i \in 1..Len(moderation_decisions) :
           /\ moderation_decisions[i].request = p
           /\ moderation_decisions[i].action_taken = process[p].action
    \/ process[p].background_error = "PostgresError"

\* C22: when executing the chosen action raises, /process answers with the
\* chosen action, success false and the cause, and the decision with the
\* chosen action is still handed to the background persistence.
C22_FailedExecutionStillRecorded ==
    \A p \in Handled :
        process[p].execution = "raised"
            => /\ process[p].response.status = 200
               /\ process[p].response.body.action_taken = process[p].action
               /\ process[p].response.body.success = FALSE
               /\ process[p].response.body.details = "Action failed"
               /\ process[p].action \in {"warn", "timeout", "kick", "ban"}
               /\ ScheduledForPersistence(p)

\* C22 witness: the execution of a kick raised; it was answered with
\* success false and its row, with action kick, was inserted.
C22_Witness ==
    \E p \in Handled :
        /\ process[p].execution = "raised"
        /\ process[p].action = "kick"
        /\ process[p].response.body.success = FALSE
        /\ \E i \in 1..Len(moderation_decisions) :
               /\ moderation_decisions[i].request = p
               /\ moderation_decisions[i].action_taken = "kick"

\* C23: when the webhook notification fails, or a background write (the
\* insert of the decision, the violation upsert) fails, the response of
\* /process is still the chosen action with success true.
C23_BackgroundFailuresLeaveResponse ==
    \A p \in Handled :
        (/\ process[p].execution # "raised"
         /\ \/ process[p].execution = "notification_failed"
            \/ process[p].background_error # "none")
            => /\ process[p].response.status = 200
               /\ process[p].response.body.action_taken = process[p].action
               /\ process[p].response.body.success = TRUE

\* C23 witness: one call whose notification failed and whose insert failed,
\* another whose violation upsert failed, both answered with success true.
C23_Witness ==
    \E p, q \in Handled :
        /\ process[p].execution = "notification_failed"
        /\ process[p].background_error = "PostgresError"
        /\ process[p].response.body.success = TRUE
        /\ process[q].execution = "ok"
        /\ process[q].background_error = "InvalidColumnReferenceError"
        /\ process[q].response.body.success = TRUE

\* C30 (as claimed): whatever the decision label, the confidence and the
\* severity string, the action chosen and answered is one of warn, timeout,
\* kick, ban and never none; and once a Non-Toxic decision with confidence
\* above 0.5 is over, its background writes run, the violation counter of
\* its user has gone up.
C30_LabelIgnored ==
    \A p \in Handled :
        /\ process[p].action \in {"warn", "timeout", "kick", "ban"}
        /\ process[p].response.body.action_taken \in {"warn", "timeout", "kick", "ban"}
        /\ (/\ process[p].pc = "done"
            /\ process[p].decision.decision = "Non-Toxic"
            /\ process[p].decision.confidence > 50
            /\ process[p].background_error # "PostgresError")
               => ViolationCount(user_violations, process[p].decision.user_id)
                     > ViolationCount(violations_at_start, process[p].decision.user_id)

\* Request r went through the Filter and the MCP and its entry point is over.
Moderated(r) ==
    /\ pipeline[r].pc = "done"
    /\ pipeline[r].moderation_result # NoValue

\* C24 (as claimed): within one ingress request the Decision Handler is
\* invoked for the message after the MCP verdict and before the broadcast,
\* so a request that is over with an MCP verdict has had a /process call.
C24_DecisionBetweenMcpAndBroadcast ==
    \A r \in Requests :
        Moderated(r) => \E p \in ProcessIds : process[p].pc # "idle"

\* The record of request r has been handed to broadcast_message.
Broadcast(r) ==
    \E i \in 1..Len(broadcast_log) :
        /\ broadcast_log[i].request = r
        /\ broadcast_log[i].data = pipeline[r].result

TimesSent(b, c) ==
    Cardinality({i \in 1..Len(broadcast[b].sent) : broadcast[b].sent[i] = c})

InList(c) == \E i \in 1..Len(active_connections) : active_connections[i] = c

\* C25: once a broadcast has returned, every client whose send failed is out
\* of active_connections, and every client that was in the list when the
\* broadcast began and is still connected was sent the frame exactly once,
\* whatever connects, disconnects and other broadcasts ran between its sends.
C25_BroadcastReachesEveryClientOnce ==
    \A b \in Broadcasts :
        broadcast[b].pc = "done" =>
            /\ \A i \in 1..Len(broadcast[b].disconnected) :
                   ~InList(broadcast[b].disconnected[i])
            /\ \A i \in 1..Len(broadcast[b].snapshot) :
                   LET c == broadcast[b].snapshot[i]
                   IN ws[c] = "open" => TimesSent(b, c) = 1

\* C27: at no time are two tasks of simulate_chat_stream inside the loop
\* generating a message, whatever the order of the start and stop requests.
C27_AtMostOneGeneratorLoop ==
    Cardinality({t \in Tasks : loops[t] = "generating"}) <= 1

\* C28: a connection whose /ws handler is over, after a disconnect or after
\* an error on a control frame, is not in active_connections, and the gauge
\* equals the length of the list.
C28_TerminatedHandlerNotListed ==
    /\ \A c \in Connections : ws[c] \in {"disconnected", "crashed"} => ~InList(c)
    /\ ACTIVE_CONNECTIONS = Len(active_connections)

=============================================================================
